---------------------------- MODULE Spec2Model ----------------------------
(***************************************************************************)
(* Model of src/src/poll.rs: the Poller registry (a table of Entry values  *)
(* keyed by handle, behind one Mutex), its register_pollable and poll      *)
(* operations, and the block_on driver loop of the PollableRegistry trait. *)
(*                                                                         *)
(* A registration is identified by the resource it registers: every call   *)
(* of register_pollable wraps a fresh Pollable in a fresh Arc and stores a *)
(* fresh Entry {Weak, Waker}.  Resource ids are 1..MaxRes; 0 stands for    *)
(* "no entry" / "none".                                                    *)
(***************************************************************************)
EXTENDS Integers, FiniteSets, Sequences

\* ---------------------------------------------------------------- bounds
MaxRes == 2          \* registrations made in one behaviour
NumHandles == 2      \* distinct handle values (u32 keys of the table)
MaxAttempts == 2     \* attempts block_on makes before the model stops it

Threads == {1, 2}
Driver == 1          \* the thread that runs block_on
Res == 1..MaxRes
Handles == 1..NumHandles
Unlocked == 0        \* the Mutex is free
Poisoned == -1       \* a thread panicked while holding the Mutex

VARIABLES
    entries,     \* Poller.entries: handle -> resource id of the Entry, or 0
    lock,        \* the Mutex around entries: Unlocked, Poisoned or the holder
    nextRes,     \* the next fresh resource id
    handleOf,    \* Pollable::handle() of each resource (0: not created)
    wakerOf,     \* Entry.waker of each registration: "none", "noop", "task"
    owner,       \* TRUE while the Arc returned by register_pollable is alive
    destroyed,   \* TRUE once the Pollable itself was dropped
    pc,          \* position of each thread
    pending,     \* register_pollable: the resource being registered, or 0
    pollables,   \* poll: the Vec<Arc<Pollable>> passed to Pollable::poll
    readyIdxs,   \* poll: positions reported ready and not yet dispatched
    cur,         \* poll: the entry just removed, whose waker is to be woken
    ret,         \* poll: the value being returned ("none", "true", "false")
    bo,          \* block_on: "none", "running", "Ok", "Stalled"
    fut,         \* block_on: outcome of the last attempt of the future
    attempts,    \* block_on: number of attempts made
    boPolls,     \* block_on: number of poll calls made
    signalled,   \* TRUE once a "task" waker was woken
    \* ---- history variables (observations, never read by the operations)
    wakes,       \* number of times the waker of each registration was woken
    removedBy,   \* why the entry left the table: none/ready/purge/overwrite
    removals,    \* number of times the entry left the table
    extCalled,   \* poll: Pollable::poll was invoked in this call
    afterPurge,  \* poll: the table as the purge step left it
    reported,    \* poll: the resources Pollable::poll reported ready
    reportedDead,\* poll: those of them whose owner was dropped before the report
    deadAtStart, \* poll: the registrations whose owner was dropped before the call
    skipped      \* the entries of the table that a poll failed to upgrade

vars == <<entries, lock, nextRes, handleOf, wakerOf, owner, destroyed, pc,
          pending, pollables, readyIdxs, cur, ret, bo, fut, attempts, boPolls,
          signalled, wakes, removedBy, removals, extCalled, afterPurge,
          reported, reportedDead, deadAtStart, skipped>>

resVars == <<nextRes, handleOf, wakerOf>>
boVars == <<bo, fut, attempts, boPolls>>
pollHist == <<extCalled, afterPurge, reported, reportedDead, deadAtStart>>

\* ------------------------------------------------------------ helpers
EmptyTable == [h \in Handles |-> 0]

Range(s) == {s[i] : i \in DOMAIN s}

\* The entries of a table, as the set of their resource ids.
Live(tbl) == {tbl[h] : h \in Handles} \ {0}

\* Threads whose pollables vector holds a temporary Arc of r.
Holders(r) == {t \in Threads : r \in Range(pollables[t])}

\* Weak::strong_count: the owner's Arc plus the temporary Arcs of poll.
StrongCount(r) == (IF owner[r] THEN 1 ELSE 0) + Cardinality(Holders(r))

\* All orders in which HashMap::values may yield the resources of S.
Orders(S) ==
    {s \in [1..Cardinality(S) -> S] : \A i, j \in DOMAIN s : s[i] = s[j] => i = j}

\* A lock that excludes nobody.
LockNeverBlocks(l) == TRUE

\* Mutex::lock succeeds only when nobody holds the lock.
CanLock(l) == l = Unlocked

\* An insert that keeps the entry already stored under the handle.
InsertIfAbsent(tbl, h, r) == IF tbl[h] = 0 THEN [tbl EXCEPT ![h] = r] ELSE tbl

\* HashMap::insert.
Insert(tbl, h, r) == [tbl EXCEPT ![h] = r]

\* A purge that keeps every entry, owned or not.
RetainEverything(tbl) == tbl

\* A purge that drops every entry, owned or not.
RetainNothing(tbl) == [h \in Handles |-> 0]

\* HashMap::retain(|_, entry| entry.pollable.strong_count() > 0).
Retain(tbl) ==
    [h \in Handles |-> IF tbl[h] # 0 /\ StrongCount(tbl[h]) > 0 THEN tbl[h] ELSE 0]

\* An emptiness test that always answers yes.
AlwaysEmpty(tbl) == TRUE

\* An emptiness test that never answers yes.
NeverEmpty(tbl) == FALSE

\* HashMap::is_empty.
IsEmpty(tbl) == Live(tbl) = {}

\* An upgrade that succeeds for every entry, dropped or not.
UpgradeAll(tbl) == Live(tbl)

\* filter_map(|entry| entry.pollable.upgrade()): the entries that upgrade.
Upgraded(tbl) == {r \in Live(tbl) : StrongCount(r) > 0}

\* Resolving every ready position to the handle of the first resource.
HandleOfFirst(batch, idx) == handleOf[batch[1]]

\* pollables[idx].handle().
HandleAt(batch, idx) == handleOf[batch[idx]]

\* A removal that clears the whole table.
RemoveAll(tbl, h) == [k \in Handles |-> 0]

\* A removal that leaves the entry in the table.
RemoveNothing(tbl, h) == tbl

\* HashMap::remove.
Remove(tbl, h) == [tbl EXCEPT ![h] = 0]

\* Handles are opaque keys, compared only for equality: a behaviour is told
\* up to their renaming, so a registration uses a handle seen before or the
\* least one not seen yet.
UsedHandles == Cardinality({handleOf[r] : r \in Res} \ {0})

\* Where a thread makes its calls from: the driver from inside an attempt of
\* the future block_on drives, the other threads from their own code.
Home(t) == IF t = Driver THEN "attempt" ELSE "idle"

\* ---------------------------------------------------------------- Init
\* A Poller::default() shared by two threads.  The driver has called block_on
\* (lines 31-35: the future is pinned, the no-op waker and its Context are
\* made) and is about to make its first attempt.
Init ==
    /\ entries = EmptyTable
    /\ lock = Unlocked
    /\ nextRes = 1
    /\ handleOf = [r \in Res |-> 0]
    /\ wakerOf = [r \in Res |-> "none"]
    /\ owner = [r \in Res |-> FALSE]
    /\ destroyed = [r \in Res |-> FALSE]
    /\ pc = [t \in Threads |-> Home(t)]
    /\ pending = [t \in Threads |-> 0]
    /\ pollables = [t \in Threads |-> <<>>]
    /\ readyIdxs = [t \in Threads |-> {}]
    /\ cur = [t \in Threads |-> 0]
    /\ ret = [t \in Threads |-> "none"]
    /\ bo = [t \in Threads |-> IF t = Driver THEN "running" ELSE "none"]
    /\ fut = [t \in Threads |-> "none"]
    /\ attempts = [t \in Threads |-> 0]
    /\ boPolls = [t \in Threads |-> 0]
    /\ signalled = FALSE
    /\ wakes = [r \in Res |-> 0]
    /\ removedBy = [r \in Res |-> "none"]
    /\ removals = [r \in Res |-> 0]
    /\ extCalled = [t \in Threads |-> FALSE]
    /\ afterPurge = [t \in Threads |-> EmptyTable]
    /\ reported = [t \in Threads |-> {}]
    /\ reportedDead = [t \in Threads |-> {}]
    /\ deadAtStart = [t \in Threads |-> {}]
    /\ skipped = {}


\* ------------------------------------------------- register_pollable
\* Lines 64-69: read the handle, wrap the pollable in a fresh Arc, build the
\* Entry from a Weak of it and a clone of the caller's waker.  Under block_on
\* the waker is the no-op waker; elsewhere it is a task's waker.
RegBegin(t, h) ==
    /\ pc[t] = Home(t)
    /\ nextRes <= MaxRes
    /\ h <= UsedHandles + 1
    /\ handleOf' = [handleOf EXCEPT ![nextRes] = h]
    /\ wakerOf' = [wakerOf EXCEPT ![nextRes] = IF pc[t] = "attempt" THEN "noop" ELSE "task"]
    /\ owner' = [owner EXCEPT ![nextRes] = TRUE]
    /\ pending' = [pending EXCEPT ![t] = nextRes]
    /\ nextRes' = nextRes + 1
    /\ pc' = [pc EXCEPT ![t] = "reglock"]
    /\ UNCHANGED <<entries, lock, destroyed, pollables, readyIdxs, cur, ret,
                   boVars, signalled, wakes, removedBy, removals,  pollHist, skipped>>

\* Lines 70-71, self.entries.lock().unwrap().insert(handle, entry): the
\* call blocks while the lock is held; then, in one statement, the entry
\* stored under the handle is replaced (the old Entry, if any, is dropped
\* without being woken), the guard is released, and the Arc is returned.
RegInsert(t) ==
    /\ pc[t] = "reglock"
    /\ CanLock(lock)
    /\ LET r == pending[t]
           h == handleOf[r]
           old == entries[h]
       IN /\ entries' = Insert(entries, h, r)
          /\ removedBy' = IF old # 0 THEN [removedBy EXCEPT ![old] = "overwrite"]
                          ELSE removedBy
          /\ removals' = IF old # 0 THEN [removals EXCEPT ![old] = @ + 1]
                         ELSE removals
          /\ skipped' = skipped \ {old}
    /\ pending' = [pending EXCEPT ![t] = 0]
    /\ pc' = [pc EXCEPT ![t] = Home(t)]
    /\ UNCHANGED <<lock, resVars, owner, destroyed, pollables, readyIdxs, cur, ret,
                   boVars, signalled, wakes,  pollHist>>

\* ------------------------------------------------ drop of the owner
\* The holder of the Arc returned by register_pollable drops it.  No lock is
\* involved: any thread may do so at any time once register returned.  The
\* Pollable is dropped with it unless a poll holds a temporary Arc.
DropOwner(r) ==
    /\ r < nextRes
    /\ owner[r]
    /\ \A t \in Threads : pending[t] # r
    /\ owner' = [owner EXCEPT ![r] = FALSE]
    /\ destroyed' = [destroyed EXCEPT ![r] = Holders(r) = {}]
    /\ UNCHANGED <<entries, lock, resVars, pc, pending, pollables, readyIdxs,
                   cur, ret, boVars, signalled, wakes, removedBy, removals, pollHist, skipped>>

\* -------------------------------------------------------------- poll
\* Lines 75-82: poll is called by block_on (the driver, at "lock") or
\* directly by another thread.  It takes the lock, retains the entries that
\* still have an owner, and returns false when none is left.
PollPurge(t) ==
    /\ pc[t] = "lock" \/ (t # Driver /\ pc[t] = "idle")
    /\ CanLock(lock)
    /\ lock' = t
    /\ deadAtStart' = [deadAtStart EXCEPT ![t] = {r \in Live(entries) : ~owner[r]}]
    /\ LET kept == Retain(entries)
           gone == Live(entries) \ Live(kept)
       IN /\ entries' = kept
          /\ afterPurge' = [afterPurge EXCEPT ![t] = kept]
          /\ removedBy' = [r \in Res |-> IF r \in gone THEN "purge" ELSE removedBy[r]]
          /\ removals' = [r \in Res |-> IF r \in gone THEN removals[r] + 1 ELSE removals[r]]
          /\ skipped' = skipped \ gone
          /\ IF IsEmpty(kept)
             THEN /\ ret' = [ret EXCEPT ![t] = "false"]
                  /\ pc' = [pc EXCEPT ![t] = "unlock"]
             ELSE /\ ret' = ret
                  /\ pc' = [pc EXCEPT ![t] = "collect"]
    /\ UNCHANGED <<resVars, owner, destroyed, pending, pollables, readyIdxs,
                   cur, boVars, signalled, wakes, extCalled, reported, reportedDead>>

\* Lines 85-90: upgrade the weak reference of every entry, in the order the
\* map yields them, and pass the resources that upgraded to Pollable::poll.
PollCollect(t) ==
    /\ pc[t] = "collect"
    /\ \E batch \in Orders(Upgraded(entries)) :
          pollables' = [pollables EXCEPT ![t] = batch]
    /\ extCalled' = [extCalled EXCEPT ![t] = TRUE]
    /\ skipped' = skipped \cup (Live(entries) \ Upgraded(entries))
    /\ pc' = [pc EXCEPT ![t] = "ext"]
    /\ UNCHANGED <<entries, lock, resVars, owner, destroyed, pending, readyIdxs,
                   cur, ret, boVars, signalled, wakes, removedBy, removals,
                   afterPurge, reported, reportedDead, deadAtStart>>

\* Line 90: Pollable::poll returns a set of positions of the batch it got.
PollExtReturn(t) ==
    /\ pc[t] = "ext"
    /\ \E S \in SUBSET DOMAIN pollables[t] :
          /\ readyIdxs' = [readyIdxs EXCEPT ![t] = S]
          /\ reported' = [reported EXCEPT ![t] = {pollables[t][i] : i \in S}]
          /\ reportedDead' = [reportedDead EXCEPT ![t] =
                {pollables[t][i] : i \in {k \in S : ~owner[pollables[t][k]]}}]
    /\ pc' = [pc EXCEPT ![t] = "dispatch"]
    /\ UNCHANGED <<entries, lock, resVars, owner, destroyed, pending, pollables,
                   cur, ret, boVars, signalled, wakes, removedBy, removals,
                   extCalled, afterPurge, deadAtStart, skipped>>

\* Lines 93-96: take the next ready position, resolve its handle and remove
\* the entry stored under it.  remove(..).unwrap() panics when there is none;
\* unwinding drops the temporary Arcs and poisons the Mutex.
PollDispatch(t) ==
    /\ pc[t] = "dispatch"
    /\ \E idx \in readyIdxs[t] :
          LET h == HandleAt(pollables[t], idx)
              r == entries[h]
          IN IF r # 0
             THEN /\ entries' = Remove(entries, h)
                  /\ readyIdxs' = [readyIdxs EXCEPT ![t] = @ \ {idx}]
                  /\ cur' = [cur EXCEPT ![t] = r]
                  /\ removedBy' = [removedBy EXCEPT ![r] = "ready"]
                  /\ removals' = [removals EXCEPT ![r] = @ + 1]
                  /\ pc' = [pc EXCEPT ![t] = "wake"]
                  /\ UNCHANGED <<lock, pollables, destroyed>>
             ELSE /\ pc' = [pc EXCEPT ![t] = "panic"]
                  /\ lock' = Poisoned
                  /\ pollables' = [pollables EXCEPT ![t] = <<>>]
                  /\ destroyed' = [x \in Res |->
                        destroyed[x] \/ (x \in Range(pollables[t]) /\ ~owner[x])]
                  /\ UNCHANGED <<entries, readyIdxs, cur, removedBy, removals>>
    /\ UNCHANGED <<resVars, owner, pending, ret, boVars, signalled, wakes,  pollHist, skipped>>

\* A wake that marks a task resumable whatever the waker is.
WakeAny(w, s) == TRUE

\* Waker::wake: a task's waker marks its task resumable; the wake of the
\* no-op waker of block_on (lines 119-125) has an empty body.
Wake(w, s) == s \/ w = "task"

\* Line 97, entry.waker.wake().
PollWake(t) ==
    /\ pc[t] = "wake"
    /\ wakes' = [wakes EXCEPT ![cur[t]] = @ + 1]
    /\ signalled' = Wake(wakerOf[cur[t]], signalled)
    /\ cur' = [cur EXCEPT ![t] = 0]
    /\ pc' = [pc EXCEPT ![t] = "dispatch"]
    /\ UNCHANGED <<entries, lock, resVars, owner, destroyed, pending, pollables,
                   readyIdxs, ret, boVars, removedBy, removals,  pollHist, skipped>>

\* Lines 99-100: every ready position is dispatched; the value is true and
\* the locals are dropped, the temporary Arcs before the guard.  A resource
\* whose owner is gone is dropped with its last temporary Arc.
PollFinish(t) ==
    /\ pc[t] = "dispatch"
    /\ readyIdxs[t] = {}
    /\ ret' = [ret EXCEPT ![t] = "true"]
    /\ pollables' = [pollables EXCEPT ![t] = <<>>]
    /\ destroyed' = [x \in Res |->
          destroyed[x] \/ (Holders(x) = {t} /\ ~owner[x])]
    /\ pc' = [pc EXCEPT ![t] = "unlock"]
    /\ UNCHANGED <<entries, lock, resVars, owner, pending, readyIdxs, cur,
                   boVars, signalled, wakes, removedBy, removals,  pollHist, skipped>>

\* A loop that goes on whatever poll returns.
NeverStalled(r) == "running"

\* Lines 39-41: what block_on makes of the value poll returns.
AfterPoll(r) == IF r = "false" THEN "Stalled" ELSE "running"

\* The guard is dropped and poll returns.  Under block_on (lines 39-41) a
\* false value ends the loop with Err(Stalled), a true value starts the
\* next attempt.  The model follows the loop for MaxAttempts attempts: a
\* driver whose last modelled attempt was Pending and whose poll returns true
\* is left at the return.
PollUnlock(t) ==
    /\ pc[t] = "unlock"
    /\ bo[t] = "running" => ret[t] = "false" \/ attempts[t] < MaxAttempts
    /\ lock' = Unlocked
    /\ ret' = [ret EXCEPT ![t] = "none"]
    /\ bo' = [bo EXCEPT ![t] = IF @ = "running" THEN AfterPoll(ret[t]) ELSE @]
    /\ pc' = [pc EXCEPT ![t] =
          IF bo[t] = "running" /\ AfterPoll(ret[t]) = "running" THEN "attempt" ELSE "idle"]
    /\ extCalled' = [extCalled EXCEPT ![t] = FALSE]
    /\ afterPurge' = [afterPurge EXCEPT ![t] = EmptyTable]
    /\ reported' = [reported EXCEPT ![t] = {}]
    /\ reportedDead' = [reportedDead EXCEPT ![t] = {}]
    /\ deadAtStart' = [deadAtStart EXCEPT ![t] = {}]
    /\ UNCHANGED <<entries, resVars, owner, destroyed, pending, pollables,
                   readyIdxs, cur, fut, attempts, boPolls, signalled, wakes,
                   removedBy, removals, skipped>>

\* ---------------------------------------------------------- block_on
\* A loop that polls the registry before it looks at the outcome.
PollFirst(outcome) == "lock"

\* A loop that tries the future again at once when it is Pending.
RetryAtOnce(outcome) == IF outcome = "Ready" THEN "idle" ELSE "attempt"

\* Lines 36-39: what the loop does with the outcome of an attempt.
AfterAttempt(outcome) == IF outcome = "Ready" THEN "idle" ELSE "lock"

\* Line 36: one attempt of the future ends Ready or Pending (it may have
\* registered pollables and dropped owners before, by the actions above).
FutAttempt(t) ==
    /\ pc[t] = "attempt"
    /\ bo[t] = "running"
    /\ attempts[t] < MaxAttempts
    /\ \E outcome \in {"Ready", "Pending"} :
          /\ fut' = [fut EXCEPT ![t] = outcome]
          /\ pc' = [pc EXCEPT ![t] = AfterAttempt(outcome)]
          /\ bo' = [bo EXCEPT ![t] = IF AfterAttempt(outcome) = "idle" THEN "Ok" ELSE @]
          /\ boPolls' = [boPolls EXCEPT ![t] = IF AfterAttempt(outcome) = "lock" THEN @ + 1 ELSE @]
    /\ attempts' = [attempts EXCEPT ![t] = @ + 1]
    /\ UNCHANGED <<entries, lock, resVars, owner, destroyed, pending, pollables,
                   readyIdxs, cur, ret, signalled, wakes, removedBy, removals,  pollHist, skipped>>

\* ---------------------------------------------------------------- Next
Next ==
    \/ \E t \in Threads, h \in Handles : RegBegin(t, h)
    \/ \E t \in Threads : RegInsert(t)
    \/ \E r \in Res : DropOwner(r)
    \/ \E t \in Threads : PollPurge(t)
    \/ \E t \in Threads : PollCollect(t)
    \/ \E t \in Threads : PollExtReturn(t)
    \/ \E t \in Threads : PollDispatch(t)
    \/ \E t \in Threads : PollWake(t)
    \/ \E t \in Threads : PollFinish(t)
    \/ \E t \in Threads : PollUnlock(t)
    \/ \E t \in Threads : FutAttempt(t)

Spec == Init /\ [][Next]_vars

\* Scheduling.  A thread inside poll or block_on runs sequential code and
\* goes on: the batch is built, Pollable::poll returns, every ready position
\* is dispatched, the guard is dropped, the loop of block_on makes its next
\* attempt.  Mutex::lock (lines 70 and 75) blocks the driver until the lock
\* is granted, and it is granted once it has been free often enough.  What
\* the environment does (registering, dropping owners, polls of the other
\* thread) is under no obligation.
Fairness ==
    /\ \A t \in Threads :
          /\ WF_vars(PollCollect(t))
          /\ WF_vars(PollExtReturn(t))
          /\ WF_vars(PollDispatch(t))
          /\ WF_vars(PollWake(t))
          /\ WF_vars(PollFinish(t))
          /\ WF_vars(PollUnlock(t))
    /\ WF_vars(FutAttempt(Driver))
    /\ SF_vars(PollPurge(Driver))
    /\ SF_vars(RegInsert(Driver))

LiveSpec == Init /\ [][Next]_vars /\ Fairness

\* ---------------------------------------------------------- type check
TypeOK ==
    /\ entries \in [Handles -> 0..MaxRes]
    /\ lock \in Threads \cup {Unlocked, Poisoned}
    /\ nextRes \in 1..(MaxRes + 1)
    /\ \A r \in Res : wakes[r] \in 0..MaxRes /\ removals[r] \in 0..MaxRes
    /\ \A t \in Threads : attempts[t] \in 0..MaxAttempts


\* ---------------------------------------------------------------- claims
\* Positions of poll at which the thread holds the lock.
InPoll == {"collect", "ext", "dispatch", "wake", "unlock"}

\* Registrations whose register_pollable call has returned.
Registered == {r \in Res : r < nextRes /\ \A t \in Threads : pending[t] # r}

\* C1: when a poll whose table held N entries after the purge is told by
\* Pollable::poll that k of the batched resources are ready, then at its
\* return exactly those k entries have left the table, each of their wakers
\* was woken exactly once, the other N-k entries are in the table unchanged
\* with their wakers not woken, and the value returned is true.
C1_PollDispatchesExactlyReady ==
    \A t \in Threads :
        (pc[t] = "unlock" /\ extCalled[t]) =>
            /\ ret[t] = "true"
            /\ reported[t] \subseteq Live(afterPurge[t])
            /\ entries = [h \in Handles |->
                  IF afterPurge[t][h] \in reported[t] THEN 0 ELSE afterPurge[t][h]]
            /\ \A r \in reported[t] :
                  wakes[r] = 1 /\ removals[r] = 1 /\ removedBy[r] = "ready"
            /\ \A r \in Live(afterPurge[t]) \ reported[t] :
                  wakes[r] = 0 /\ removals[r] = 0

C1_Witness ==
    \E t \in Threads :
        /\ pc[t] = "unlock"
        /\ Cardinality(Live(afterPurge[t])) = 2
        /\ Cardinality(reported[t]) = 1
        /\ Cardinality(Live(entries)) = 1

C3_EmptyReturnsFalse ==
    \A t \in Threads :
        /\ (pc[t] = "unlock" /\ Live(afterPurge[t]) = {}) =>
              ret[t] = "false" /\ ~extCalled[t] /\ pollables[t] = <<>>
        /\ (pc[t] = "unlock" /\ ret[t] = "false") =>
              Live(afterPurge[t]) = {} /\ ~extCalled[t]
        /\ pc[t] \in {"collect", "ext", "dispatch", "wake"} => Live(afterPurge[t]) # {}

C3_Witness ==
    \E t \in Threads :
        /\ pc[t] = "unlock"
        /\ ret[t] = "false"
        /\ deadAtStart[t] # {}

\* C4: block_on ends with Err(Stalled) in exactly one way: the attempt
\* before left the future Pending and the poll call that followed returns
\* false, its table empty after the purge; a poll that returns true never
\* ends it so.  On a registry nothing was ever registered with, a future that
\* stays Pending is Stalled after one attempt and one poll.
C4_StalledStep(t) ==
    (bo'[t] = "Stalled" /\ bo[t] # "Stalled") <=>
        /\ bo[t] = "running"
        /\ pc[t] = "unlock"
        /\ pc'[t] # "unlock"
        /\ ret[t] = "false"

C4_StalledState(t) ==
    /\ (bo[t] = "running" /\ pc[t] \in InPoll \cup {"lock"}) => fut[t] = "Pending"
    /\ bo[t] = "Stalled" => fut[t] = "Pending" /\ pc[t] = "idle" /\ boPolls[t] = attempts[t]
    /\ (bo[t] = "Stalled" /\ nextRes = 1) => attempts[t] = 1 /\ boPolls[t] = 1
    /\ (bo[t] = "running" /\ pc[t] = "unlock" /\ nextRes = 1) => ret[t] = "false"
    /\ (bo[t] = "running" /\ pc[t] = "unlock" /\ ret[t] = "false") =>
          Live(afterPurge[t]) = {} /\ Live(entries) = {}

C4_StalledExactlyOnFalsePoll ==
    /\ [](\A t \in Threads : C4_StalledState(t))
    /\ [][\A t \in Threads : C4_StalledStep(t)]_vars

C4_Witness ==
    /\ bo[Driver] = "Stalled"
    /\ nextRes = 1
    /\ attempts[Driver] = 1

\* C5: when the first attempt of the future is Ready, block_on returns Ok
\* having made no poll call: the driver never enters poll.
C5_ReadyAtOnceNeverPolls ==
    \A t \in Threads :
        (attempts[t] = 1 /\ fut[t] = "Ready") =>
            /\ bo[t] = "Ok"
            /\ boPolls[t] = 0
            /\ pc[t] = "idle"
            /\ lock # t

C5_Witness ==
    /\ bo[Driver] = "Ok"
    /\ attempts[Driver] = 1
    /\ Live(entries) # {}

\* C6: the waker of a registration is woken at most once; it is woken only
\* after poll removed the entry as ready, so never while the entry is in the
\* table and never for an entry the purge (or a replacement) removed; and the
\* waker poll is about to wake is that of the entry it has just removed.
C6_WakeAtMostOnceOnRemoval ==
    /\ \A r \in Res :
          /\ wakes[r] <= 1
          /\ wakes[r] = 1 =>
                removedBy[r] = "ready" /\ removals[r] = 1 /\ r \notin Live(entries)
          /\ removedBy[r] \in {"purge", "overwrite"} => wakes[r] = 0
    /\ \A t \in Threads :
          pc[t] = "wake" =>
              /\ cur[t] \in reported[t]
              /\ cur[t] \notin Live(entries)
              /\ removedBy[cur[t]] = "ready"
              /\ wakes[cur[t]] = 0

C6_Witness ==
    \E r, q \in Res :
        /\ wakes[r] = 1
        /\ removedBy[q] = "purge"
        /\ wakes[q] = 0

\* C7 (as amended): an entry leaves the table at most once, and for one of
\* three reasons: its resource was reported ready (its waker is woken, once),
\* its owner was dropped and a purge removed it (never woken), or a later
\* registration under the same handle replaced it (never woken).  A
\* registration that has not left is in the table.
C7_Lifecycle(r) ==
    /\ removals[r] <= 1
    /\ removals[r] = 0 <=> removedBy[r] = "none"
    /\ (r \in Registered /\ removedBy[r] = "none") <=> r \in Live(entries)
    /\ removedBy[r] = "ready" =>
          wakes[r] = 1 \/ (wakes[r] = 0 /\ \E t \in Threads : cur[t] = r)
    /\ removedBy[r] = "purge" => ~owner[r] /\ wakes[r] = 0
    /\ removedBy[r] = "overwrite" =>
          /\ wakes[r] = 0
          /\ \E q \in Registered : q # r /\ handleOf[q] = handleOf[r]

C7_LeavesOnceForThreeReasons == \A r \in Res : C7_Lifecycle(r)

C7_Witness ==
    \E r \in Res : removedBy[r] = "overwrite" /\ owner[r]

\* C7 (as stated): the same, with the two reasons of the claim only.
C7_AsStated ==
    \A r \in Res : C7_Lifecycle(r) /\ removedBy[r] \in {"none", "ready", "purge"}

\* C8: the lock is held from the start of poll to its return, the external
\* call included, and by one thread at a time; while a round is in flight a
\* register_pollable of another thread has not inserted its entry: the table
\* holds only entries the round started with, the batch holds only such
\* entries, and the waiting registration is in neither.
C8_LockHeldThroughPoll ==
    /\ Cardinality({t \in Threads : pc[t] \in InPoll}) <= 1
    /\ \A t \in Threads : pc[t] \in InPoll <=> lock = t
    /\ \A t \in Threads :
          pc[t] \in InPoll =>
              /\ \A h \in Handles : entries[h] # 0 => entries[h] = afterPurge[t][h]
              /\ Range(pollables[t]) \subseteq Live(afterPurge[t])
              /\ \A u \in Threads :
                    pending[u] # 0 =>
                        /\ pc[u] = "reglock"
                        /\ pending[u] \notin Live(entries)
                        /\ pending[u] \notin Range(pollables[t])

C8_Witness ==
    \E t, u \in Threads :
        /\ pc[t] = "ext"
        /\ pc[u] = "reglock"
        /\ handleOf[pending[u]] \notin {handleOf[r] : r \in Range(pollables[t])}

\* C9: Pollable::poll is never invoked with an empty batch.
C9_BatchNeverEmpty ==
    \A t \in Threads : pc[t] = "ext" => pollables[t] # <<>>

\* C10: the resource is destroyed as soon as its owner is dropped: the
\* registry never keeps it alive.
C10_DestroyedWithOwner ==
    \A r \in Registered : ~owner[r] => destroyed[r]

\* The steps by which an entry r can leave the table.
LeavesTable(r) == r \in Live(entries) /\ r \notin Live(entries')

\* ... the purge of a poll call that starts in this step,
ByPurge(r) ==
    \E t \in Threads :
        /\ pc[t] \in {"lock", "idle"}
        /\ pc'[t] \in {"collect", "unlock"}
        /\ ~owner[r]

\* ... the dispatch of a readiness round that reported its resource ready,
ByDispatch(r) ==
    \E t \in Threads :
        /\ pc[t] = "dispatch"
        /\ pc'[t] = "wake"
        /\ r \in reported[t]
        /\ cur'[t] = r

\* ... or a register_pollable that stores another entry under its handle.
ByReplacement(r) ==
    \E t \in Threads :
        /\ pc[t] = "reglock"
        /\ pc'[t] # "reglock"
        /\ pending[t] # r
        /\ handleOf[pending[t]] = handleOf[r]
        /\ entries'[handleOf[r]] = pending[t]

\* A step in which an owner is dropped.
OwnerDropped == \E r \in Res : owner[r] /\ ~owner'[r]

\* C11 (as amended): dropping the owner leaves the table as it is, the dead
\* entry included; an entry whose resource was not reported ready leaves the
\* table only in the purge at the start of a poll call, and then its owner is
\* gone, or when a register_pollable under the same handle replaces it.
C11_LazyCancellation ==
    [][/\ OwnerDropped => entries' = entries
       /\ \A r \in Res :
             LeavesTable(r) => ByDispatch(r) \/ ByPurge(r) \/ ByReplacement(r)]_vars

C11_Witness ==
    \E r \in Res, t \in Threads :
        /\ ~owner[r]
        /\ r \in Live(entries)
        /\ pc[t] = "lock"

\* C11 (as stated): the same, with the purge as the only way out for an
\* entry whose resource was not reported ready.
C11_AsStated ==
    [][/\ OwnerDropped => entries' = entries
       /\ \A r \in Res : LeavesTable(r) => ByDispatch(r) \/ ByPurge(r)]_vars

\* C12: in block_on attempts and poll calls alternate.  While the loop runs
\* it has made as many poll calls as attempts; it starts an attempt after the
\* first only from the return of a poll call that returned true and that
\* invoked Pollable::poll; and an attempt is counted only from the position
\* at which the future is polled.
C12_Alternation(t) ==
    /\ (pc[t] = "unlock" /\ pc'[t] = "attempt") =>
          ret[t] = "true" /\ extCalled[t] /\ bo[t] = "running" /\ lock = t
    /\ attempts'[t] # attempts[t] =>
          pc[t] = "attempt" /\ attempts'[t] = attempts[t] + 1
    /\ boPolls'[t] # boPolls[t] =>
          pc[t] = "attempt" /\ pc'[t] = "lock" /\ boPolls'[t] = boPolls[t] + 1

C12_AttemptsAndPollsAlternate ==
    /\ [](\A t \in Threads :
             /\ bo[t] = "running" => boPolls[t] = attempts[t]
             /\ bo[t] = "Ok" => boPolls[t] = attempts[t] - 1
             /\ (bo[t] = "running" /\ pc[t] \in {"attempt", "reglock"} /\ attempts[t] > 0)
                   => fut[t] = "Pending")
    /\ [][\A t \in Threads : C12_Alternation(t)]_vars

C12_Witness ==
    /\ pc[Driver] = "attempt"
    /\ attempts[Driver] = 1
    /\ boPolls[Driver] = 1
    /\ bo[Driver] = "running"

\* C13: a poll whose table is not empty after the purge returns true,
\* whatever Pollable::poll reports; when it reports no position the table is
\* as the purge left it and no waker of its entries was woken.
C13_TrueWheneverNonEmpty ==
    \A t \in Threads :
        /\ (pc[t] = "unlock" /\ Live(afterPurge[t]) # {}) =>
              ret[t] = "true" /\ extCalled[t]
        /\ (pc[t] \in {"dispatch", "unlock"} /\ extCalled[t] /\ reported[t] = {}) =>
              /\ entries = afterPurge[t]
              /\ readyIdxs[t] = {}
              /\ cur[t] = 0
              /\ \A r \in Live(afterPurge[t]) : wakes[r] = 0 /\ removedBy[r] = "none"

C13_Witness ==
    \E t \in Threads :
        /\ pc[t] = "unlock"
        /\ ret[t] = "true"
        /\ reported[t] = {}
        /\ Cardinality(Live(entries)) = 2

\* C14: the table holds at most one entry per handle, stored under the
\* handle of its resource; a registration under a handle that has an entry
\* replaces it, so the registration stored under a handle is the latest one
\* made with it; and the waker of a replaced entry is never woken: the
\* replaced registration is in no batch and no report of any later round.
C14_DuplicateHandleReplaces ==
    /\ \A h \in Handles : entries[h] # 0 => handleOf[entries[h]] = h
    /\ \A r \in Registered : removedBy[r] = "none" => entries[handleOf[r]] = r
    /\ \A r \in Res :
          removedBy[r] = "overwrite" =>
              /\ wakes[r] = 0
              /\ entries[handleOf[r]] # r
              /\ \E q \in Registered : q # r /\ handleOf[q] = handleOf[r]
              /\ \A t \in Threads :
                    /\ r \notin Range(pollables[t])
                    /\ r \notin reported[t]
                    /\ cur[t] # r

C14_Witness ==
    \E r, q \in Res :
        /\ removedBy[r] = "overwrite"
        /\ owner[r]
        /\ handleOf[q] = handleOf[r]
        /\ wakes[q] = 1
        /\ wakes[r] = 0

\* The entries of the table left out of the batch of the poll of t.
Omitted(t) == Live(afterPurge[t]) \ Range(pollables[t])

\* A step that is the purge of a poll.
PurgeStep ==
    \E t \in Threads : pc[t] \in {"lock", "idle"} /\ pc'[t] \in {"collect", "unlock"}

\* C15: an entry whose owner was dropped between the purge and the batch
\* construction is left out of the batch without any error: the batch holds
\* no dropped resource, the positions reported ready are positions of the
\* batch that was passed, the poll does not panic, and the waker of the
\* omitted entry is not woken.  The entry stays in the table until the
\* purge of the next poll removes it, unless a registration under the same
\* handle replaces it before.
C15_UpgradeFailureIsSilent ==
    /\ [](/\ lock # Poisoned
          /\ \A t \in Threads :
                /\ pc[t] # "panic"
                /\ pc[t] \in {"ext", "dispatch", "wake"} =>
                      /\ Omitted(t) \subseteq skipped
                      /\ Range(pollables[t]) \subseteq Live(afterPurge[t])
                      /\ \A r \in Range(pollables[t]) : ~destroyed[r]
                      /\ readyIdxs[t] \subseteq DOMAIN pollables[t]
                      /\ reported[t] \subseteq Range(pollables[t])
          /\ \A r \in skipped :
                /\ ~owner[r]
                /\ r \in Live(entries)
                /\ wakes[r] = 0
                /\ \A t \in Threads : r \notin reported[t] /\ cur[t] # r)
    /\ [][/\ \A r \in skipped :
                LeavesTable(r) => ByPurge(r) \/ ByReplacement(r)
          /\ PurgeStep => skipped \cap Live(entries') = {}]_vars

C15_Witness ==
    \E t \in Threads, r \in Res :
        /\ pc[t] = "wake"
        /\ r \in Omitted(t)
        /\ r \in skipped

\* C15 as stated: the omitted entry leaves the table by the purge of the
\* next poll and in no other way.
C15_AsStated ==
    [][\A r \in skipped : LeavesTable(r) => ByPurge(r)]_vars

\* The poll of t removes an entry registered under block_on.
NoopRemoved(t) ==
    pc[t] = "dispatch" /\ pc'[t] = "wake" /\ wakerOf[cur'[t]] = "noop"

\* The poll of t wakes the waker of an entry registered under block_on.
NoopWoken(t) ==
    pc[t] = "wake" /\ pc'[t] = "dispatch" /\ wakerOf[cur[t]] = "noop"

\* C16: waking the no-op waker changes neither the table, nor the state of
\* the driven future, nor the loop of block_on, nor any task; all that the
\* dispatch of an entry registered under block_on does is to remove that
\* entry from the table.
C16_NoopWakerIsInert ==
    [][\A t \in Threads :
          /\ NoopWoken(t) =>
                /\ UNCHANGED <<entries, signalled, bo, fut, attempts, boPolls>>
                /\ UNCHANGED <<lock, owner, destroyed, resVars>>
                /\ \A u \in Threads \ {t} : pc'[u] = pc[u]
          /\ NoopRemoved(t) =>
                /\ entries' = [entries EXCEPT ![handleOf[cur'[t]]] = 0]
                /\ UNCHANGED <<signalled, bo, fut, attempts, boPolls>>
                /\ UNCHANGED <<lock, owner, destroyed, resVars>>
                /\ \A u \in Threads \ {t} : pc'[u] = pc[u]]_vars

C16_Witness ==
    \E r \in Res :
        /\ wakerOf[r] = "noop"
        /\ wakes[r] = 1
        /\ removedBy[r] = "ready"
        /\ ~signalled
        /\ bo[Driver] = "running"

\* C17: every position still to be dispatched is a position of the batch,
\* and the table holds, under the handle of the resource at that position,
\* the entry of that very resource: pollables[idx] and remove(..).unwrap()
\* never fail, no poll panics and the lock is never poisoned, also after
\* registrations under a handle in use and after owners dropped in flight.
C17_DispatchLookupsSucceed ==
    /\ lock \in Threads \cup {Unlocked}
    /\ \A t \in Threads :
          /\ pc[t] \in {"idle", "attempt", "reglock", "lock"} \cup InPoll
          /\ pc[t] \in {"dispatch", "wake"} =>
                \A idx \in readyIdxs[t] :
                    /\ idx \in 1..Len(pollables[t])
                    /\ entries[handleOf[pollables[t][idx]]] = pollables[t][idx]

C17_Witness ==
    \E t \in Threads, r \in Res :
        /\ pc[t] = "wake"
        /\ cur[t] \in reportedDead[t]
        /\ removedBy[r] = "overwrite"

\* A register_pollable of t stores its entry under a handle whose entry
\* belongs to a dropped owner.
ReusesDeadHandle(t) ==
    /\ pc[t] = "reglock"
    /\ pc'[t] # "reglock"
    /\ entries[handleOf[pending[t]]] # 0
    /\ ~owner[entries[handleOf[pending[t]]]]

\* C18: a registration under the handle of an entry whose owner was dropped
\* replaces that entry, whose waker was never woken and never will be; the
\* purge of a poll keeps every entry whose owner is alive, the new one
\* included; and the entry a poll removes and wakes for a ready handle is
\* the one the table holds under that handle.
C18_HandleReuseIsSafe ==
    /\ [](\A r \in Res :
            /\ removedBy[r] = "overwrite" => wakes[r] = 0
            /\ wakes[r] > 0 => removedBy[r] = "ready")
    /\ [][/\ \A t \in Threads :
                /\ ReusesDeadHandle(t) =>
                      /\ entries'[handleOf[pending[t]]] = pending[t]
                      /\ removedBy'[entries[handleOf[pending[t]]]] = "overwrite"
                      /\ wakes[entries[handleOf[pending[t]]]] = 0
                /\ (pc[t] = "dispatch" /\ pc'[t] = "wake") =>
                      entries[handleOf[cur'[t]]] = cur'[t]
                /\ (pc[t] = "wake" /\ pc'[t] = "dispatch") =>
                      wakes' = [wakes EXCEPT ![cur[t]] = @ + 1]
          /\ PurgeStep =>
                \A r \in Live(entries) : owner[r] => r \in Live(entries')]_vars

C18_Witness ==
    \E r, q \in Res :
        /\ removedBy[r] = "overwrite"
        /\ ~owner[r]
        /\ destroyed[r]
        /\ handleOf[q] = handleOf[r]
        /\ owner[q]
        /\ wakes[q] = 1
        /\ wakes[r] = 0

\* The loop of block_on has gone as far as the model follows it: the last
\* modelled attempt was Pending and the poll after it returns true.
AtAttemptBound ==
    /\ pc[Driver] = "unlock"
    /\ ret[Driver] = "true"
    /\ attempts[Driver] = MaxAttempts

ToDispatch(t) == {pollables[t][i] : i \in readyIdxs[t]}

\* C20: from the first removal of a round to its last wake the dispatching
\* poll holds the lock; each waker is woken under the lock; the table is the
\* table the purge left less the entries dispatched so far; and while the
\* round dispatches the only step that changes the table is a removal of
\* that round: no other thread inserts an entry or starts a poll.
C20_WakesUnderTheLock ==
    /\ [](\A t \in Threads :
            pc[t] \in {"dispatch", "wake"} =>
                /\ lock = t
                /\ entries = [h \in Handles |->
                      IF afterPurge[t][h] \in reported[t] \ ToDispatch(t)
                      THEN 0 ELSE afterPurge[t][h]])
    /\ [][\A t \in Threads :
            pc[t] \in {"dispatch", "wake"} =>
                /\ pc'[t] \in {"dispatch", "wake"} => lock' = t
                /\ entries' # entries => pc[t] = "dispatch" /\ pc'[t] = "wake"
                /\ \A u \in Threads \ {t} :
                      /\ pc[u] \in {"lock", "reglock"} => pc'[u] = pc[u]
                      /\ pc'[u] \notin InPoll
                      /\ pending[u] # 0 => pending'[u] = pending[u]]_vars

C20_Witness ==
    \E t, u \in Threads :
        /\ t # u
        /\ pc[t] = "wake"
        /\ readyIdxs[t] # {}
        /\ pc[u] \in {"lock", "reglock"}

=============================================================================
